---- MODULE Spec2Model ----
(***************************************************************************)
(* The nested Table component of the Amundsen frontend                     *)
(* (components/Table/index.tsx): the expansion state kept by useTableHooks,*)
(* the single-key toggle of the expanding button, the external             *)
(* expand-all / collapse-all flag, and the recursive row materializer      *)
(* getTableRows with its specific-type (array / map) unwrapping.           *)
(*                                                                         *)
(* Row keys are hierarchical paths; a key is modelled as the sequence of   *)
(* its path segments ("t/a/type/a/x" is <<"t","a","type","a","x">>), and   *)
(* the empty sequence stands for an undefined (or empty) key.              *)
(***************************************************************************)
EXTENDS Integers, Sequences, FiniteSets, TLC

(***************************************************************************)
(* Bounds of the model.                                                    *)
(***************************************************************************)
\* Deepest array nesting among the generated array columns.
MaxArrayDepth == 3

\* The calls of preExpandRightPanel are recorded up to this many; a record of
\* this length stands for that many calls or more.
MaxPanelCalls == 2

(***************************************************************************)
(* Constants of the Table module that live in its constants file.          *)
(***************************************************************************)
ARRAY_KIND == "array"
MAP_KIND == "map"
MAP_KEY_NAME == "_map_key"
MAP_VALUE_NAME == "_map_value"
MAP_KEY_DISPLAY_NAME == "Key"
MAP_VALUE_DISPLAY_NAME == "Value"

(***************************************************************************)
(* Sequence helpers (Array.prototype.includes / filter / some).            *)
(***************************************************************************)
Range(s) == {s[i] : i \in 1..Len(s)}

Includes(s, x) == \E i \in 1..Len(s) : s[i] = x

Front(s) == SubSeq(s, 1, Len(s) - 1)

Last(s) == s[Len(s)]

(***************************************************************************)
(* Row data (FormattedDataType / TypeMetadata).  typeMetadata is a         *)
(* sequence of at most one row (empty: undefined); hasChildren tells       *)
(* whether the children property is defined at all; fields is the set of   *)
(* column fields for which the row holds a value other than undefined.     *)
(***************************************************************************)
Row(key, name, kind, isExpandable, typeMetadata, hasChildren, children, fields) ==
    [key |-> key, name |-> name, kind |-> kind, isExpandable |-> isExpandable,
     typeMetadata |-> typeMetadata, hasChildren |-> hasChildren,
     children |-> children, content |-> [title |-> name], fields |-> fields,
     isNestedColumn |-> FALSE]

AllFields == {"name", "type"}

\* A scalar type-metadata node or struct field: not expandable, children: [].
Leaf(key, name) == Row(key, name, "scalar", FALSE, <<>>, TRUE, <<>>, AllFields)

\* An expandable type-metadata node of the given kind.
Node(key, name, kind, children) ==
    Row(key, name, kind, TRUE, <<>>, TRUE, children, AllFields)

\* A top-level column whose type is described by the type-metadata root tm.
Column(key, name, tm) ==
    Row(key, name, "undefined", TRUE, <<tm>>, FALSE, <<>>, AllFields)

\* A top-level column of a scalar type.
ScalarColumn(key, name, fields) ==
    Row(key, name, "undefined", FALSE, <<>>, FALSE, <<>>, fields)

(***************************************************************************)
(* The tables the model draws its data from.  Keys follow the key grammar  *)
(* of the catalog: <table>/<column>, then <table>/<column>/type/<column>   *)
(* for the root of the column's type metadata, then one segment per nested *)
(* level.                                                                  *)
(***************************************************************************)
TableKey == <<"t">>

ColKey(name) == TableKey \o <<name>>

TypeKey(name) == TableKey \o <<name, "type", name>>

RECURSIVE InnerKey(_, _)
InnerKey(key, n) == IF n = 0 THEN key ELSE InnerKey(key \o <<"_inner_">>, n - 1)

\* n array layers starting at key, the innermost one holding the row inner.
RECURSIVE ArrayLayers(_, _, _, _)
ArrayLayers(key, name, n, inner) ==
    Node(key, name, ARRAY_KIND,
         <<IF n <= 1 THEN inner
           ELSE ArrayLayers(key \o <<"_inner_">>, "_inner_", n - 1, inner)>>)

FlatTable ==
    <<ScalarColumn(ColKey("a"), "a", AllFields),
      ScalarColumn(ColKey("b"), "b", AllFields)>>

StructTable ==
    <<Column(ColKey("s"), "s",
             Node(TypeKey("s"), "s", "struct",
                  <<Leaf(TypeKey("s") \o <<"x">>, "x"),
                    Node(TypeKey("s") \o <<"y">>, "y", "struct",
                         <<Leaf(TypeKey("s") \o <<"y", "z">>, "z")>>)>>)),
      ScalarColumn(ColKey("b"), "b", AllFields)>>

MapTable ==
    <<Column(ColKey("m"), "m",
             Node(TypeKey("m"), "m", MAP_KIND,
                  <<Leaf(TypeKey("m") \o <<MAP_KEY_NAME>>, MAP_KEY_NAME),
                    Node(TypeKey("m") \o <<MAP_VALUE_NAME>>, MAP_VALUE_NAME, MAP_KIND,
                         <<Leaf(TypeKey("m") \o <<MAP_VALUE_NAME, MAP_KEY_NAME>>,
                                MAP_KEY_NAME),
                           Leaf(TypeKey("m") \o <<MAP_VALUE_NAME, "extra">>,
                                "extra")>>)>>))>>

\* array<array<...<scalar>>>, n layers, the scalar element a row of its own.
ArrayTable(n) ==
    <<Column(ColKey("arr"), "arr",
             ArrayLayers(TypeKey("arr"), "arr", n,
                         Leaf(InnerKey(TypeKey("arr"), n), "_inner_"))),
      ScalarColumn(ColKey("b"), "b", AllFields)>>

\* array<array<struct<p, q>>>.
ArrayStructTable ==
    <<Column(ColKey("as"), "as",
             ArrayLayers(TypeKey("as"), "as", 2,
                         Node(InnerKey(TypeKey("as"), 2), "_inner_", "struct",
                              <<Leaf(InnerKey(TypeKey("as"), 2) \o <<"p">>, "p"),
                                Leaf(InnerKey(TypeKey("as"), 2) \o <<"q">>, "q")>>)))>>

\* array<array<scalar>> with the innermost array a node without children.
ArrayTerminalTable ==
    <<Column(ColKey("at"), "at",
             Node(TypeKey("at"), "at", ARRAY_KIND,
                  <<Row(TypeKey("at") \o <<"_inner_">>, "_inner_", ARRAY_KIND,
                        FALSE, <<>>, TRUE, <<>>, AllFields)>>))>>

\* struct<f: array<struct<g>>>: the array is a child row, not a type root.
StructArrayTable ==
    <<Column(ColKey("sa"), "sa",
             Node(TypeKey("sa"), "sa", "struct",
                  <<ArrayLayers(TypeKey("sa") \o <<"f">>, "f", 1,
                                Node(TypeKey("sa") \o <<"f", "_inner_">>, "_inner_",
                                     "struct",
                                     <<Leaf(TypeKey("sa") \o <<"f", "_inner_", "g">>,
                                            "g")>>))>>))>>

\* struct<f: array<array<scalar>>>: an array of scalars below the top level.
StructOfArraysTable ==
    <<Column(ColKey("sf"), "sf",
             Node(TypeKey("sf"), "sf", "struct",
                  <<ArrayLayers(TypeKey("sf") \o <<"f">>, "f", 2,
                                Leaf(InnerKey(TypeKey("sf") \o <<"f">>, 2),
                                     "_inner_"))>>))>>

\* A column marked expandable that carries neither typeMetadata nor children.
NoChildrenTable ==
    <<Row(ColKey("n"), "n", "undefined", TRUE, <<>>, FALSE, <<>>, AllFields),
      ScalarColumn(ColKey("b"), "b", AllFields)>>

\* The second row leaves the field "type" undefined.
PartialFieldsTable ==
    <<ScalarColumn(ColKey("a"), "a", AllFields),
      ScalarColumn(ColKey("b"), "b", {"name"})>>

EmptyTable == <<>>

DataChoices ==
    {FlatTable, StructTable, MapTable, ArrayStructTable, ArrayTerminalTable,
     StructArrayTable, StructOfArraysTable, NoChildrenTable, PartialFieldsTable,
     EmptyTable}
    \cup {ArrayTable(n) : n \in 1..MaxArrayDepth}

\* The column schemas (the fields of props.columns, in order).
ColumnChoices == {<<"name">>, <<"name", "type">>, <<"name", "missing">>}

(***************************************************************************)
(* Validation of the data against the column schema.                       *)
(***************************************************************************)
fieldIsDefined(field, row) == field \in row.fields

\* Mutant: the loop stops one field short.
checkIfValidData_skipsLastField(d, fields) ==
    \A i \in 1..(Len(fields) - 1) :
        \E j \in 1..Len(d) : fieldIsDefined(fields[i], d[j])

\* The for loop over fields with data.some(...): valid iff every field is
\* defined by at least one row of data.
checkIfValidData(d, fields) ==
    \A i \in 1..Len(fields) :
        \E j \in 1..Len(d) : fieldIsDefined(fields[i], d[j])

(***************************************************************************)
(* The collaborator's formatChildrenData: a type-metadata node formatted   *)
(* as a nested row, its name shown as the title.                           *)
(***************************************************************************)
formatChildrenData(item) ==
    [item EXCEPT !.content = [title |-> item.name], !.isNestedColumn = TRUE]

MapSeq(s, Op(_)) == [i \in 1..Len(s) |-> Op(s[i])]

\* Mutant: only the key role is renamed.
updateMapDisplayName_keyOnly(child) ==
    [child EXCEPT !.content = [title |-> IF child.name = MAP_KEY_NAME
                                         THEN MAP_KEY_DISPLAY_NAME ELSE child.name]]

updateMapDisplayName(child) ==
    LET displayName == IF child.name = MAP_KEY_NAME THEN MAP_KEY_DISPLAY_NAME
                       ELSE IF child.name = MAP_VALUE_NAME THEN MAP_VALUE_DISPLAY_NAME
                       ELSE child.name
    IN  [child EXCEPT !.content = [title |-> displayName]]

updateMapDisplayNames(childrenData) == MapSeq(childrenData, updateMapDisplayName)

(***************************************************************************)
(* The keys of all rows of the tree, parents before their children.  The   *)
(* root of a column's typeMetadata contributes its children but not its    *)
(* own key.                                                                *)
(***************************************************************************)
RECURSIVE getAllColumnKeys(_)
getAllColumnKeys(cols) ==
    IF cols = <<>> THEN <<>>
    ELSE LET col == Last(cols)
             childKeys ==
                 IF col.typeMetadata # <<>> /\ col.typeMetadata[1].hasChildren
                    /\ Len(col.typeMetadata[1].children) > 0
                 THEN getAllColumnKeys(col.typeMetadata[1].children)
                 ELSE IF col.hasChildren /\ Len(col.children) > 0
                 THEN getAllColumnKeys(col.children)
                 ELSE <<>>
         IN  getAllColumnKeys(Front(cols)) \o <<col.key>> \o childKeys

(***************************************************************************)
(* Deep-link targeting.  A pattern is a sequence of segment patterns: a    *)
(* literal segment (those of the table key, and "type"), or AnySegment for *)
(* the column-name pattern.  String.match gives the matched text: here the *)
(* prefix of the key the pattern covers.                                   *)
(***************************************************************************)
AnySegment == "[column-name]"

COLUMN_NAME_REGEX == <<AnySegment>>

TYPE_METADATA_REGEX == <<"type", AnySegment>>

\* Mutant: the literal segments of the pattern match any segment.
Matches_ignoresLiterals(key, regex) == Len(key) >= Len(regex)

\* The pattern matches at the start of the key.
Matches(key, regex) ==
    /\ Len(key) >= Len(regex)
    /\ \A i \in 1..Len(regex) : regex[i] = AnySegment \/ regex[i] = key[i]

\* Mutant: the matched text stops one segment short.
Match_dropsLastSegment(key, regex) == SubSeq(key, 1, Len(regex) - 1)

Match(key, regex) == SubSeq(key, 1, Len(regex))

\* The while loop of getKeysToExpand: one more column-name segment per turn.
RECURSIVE nextKeys(_, _, _)
nextKeys(key, nextKeyRegex, keysToExpand) ==
    IF Matches(key, nextKeyRegex)
    THEN nextKeys(key, nextKeyRegex \o COLUMN_NAME_REGEX,
                  keysToExpand \o <<Match(key, nextKeyRegex)>>)
    ELSE keysToExpand

getKeysToExpand(panelKey, tblKey) ==
    IF panelKey # <<>>
    THEN LET columnKeyRegex == tblKey \o COLUMN_NAME_REGEX
             keysToExpand == IF Matches(panelKey, columnKeyRegex)
                             THEN <<Match(panelKey, columnKeyRegex)>>
                             ELSE <<>>
         IN  nextKeys(panelKey, columnKeyRegex \o TYPE_METADATA_REGEX, keysToExpand)
    ELSE <<>>

\* Mutant: the maximum is ignored.
getInitialExpandedRows_ignoresMax(d, allColumnKeys, maxRows, panelKey, tblKey) ==
    allColumnKeys

\* Mutant: a table of exactly maxNumRows keys is not expanded.
getInitialExpandedRows_strict(d, allColumnKeys, maxRows, panelKey, tblKey) ==
    IF maxRows.defined /\ Len(allColumnKeys) < maxRows.value
    THEN allColumnKeys
    ELSE getKeysToExpand(panelKey, tblKey)

\* maxNumRows is [defined, value]; a comparison with undefined is false.
getInitialExpandedRows(d, allColumnKeys, maxRows, panelKey, tblKey) ==
    IF maxRows.defined /\ Len(allColumnKeys) <= maxRows.value
    THEN allColumnKeys
    ELSE getKeysToExpand(panelKey, tblKey)

(***************************************************************************)
(* Specific-type unwrapping.  An operator that can throw (a property read  *)
(* on undefined) returns a record whose field threw tells so.              *)
(***************************************************************************)
getFormattedChildrenData(item) ==
    IF item.typeMetadata # <<>>
    THEN [threw |-> FALSE, rows |-> MapSeq(item.typeMetadata, formatChildrenData)]
    ELSE IF item.hasChildren
    THEN [threw |-> FALSE, rows |-> MapSeq(item.children, formatChildrenData)]
    ELSE [threw |-> TRUE, rows |-> <<>>]

\* The result of handleSpecificTypeRowData (and of its array loop).
SpecificType(threw, rowValuesToDisplay, formattedChildren, arrayCount) ==
    [threw |-> threw, rowValuesToDisplay |-> rowValuesToDisplay,
     formattedChildren |-> formattedChildren, arrayCount |-> arrayCount]

\* Mutant: the array level entered is not counted.
RECURSIVE arrayLoop_noCount(_, _, _), arrayLoopBody(_, _, _)
arrayLoop_noCount(rowValuesToDisplay, formattedChildren, arrayCount) ==
    IF rowValuesToDisplay.kind # ARRAY_KIND
    THEN SpecificType(FALSE, rowValuesToDisplay, formattedChildren, arrayCount)
    ELSE arrayLoopBody(rowValuesToDisplay,
                       getFormattedChildrenData(rowValuesToDisplay), arrayCount)

\* The while loop over array kinds of handleSpecificTypeRowData: arrayLoop is
\* the loop test, arrayLoopBody one turn with next the formatted children of
\* the array and arrayCount already incremented.
RECURSIVE arrayLoop(_, _, _)
arrayLoop(rowValuesToDisplay, formattedChildren, arrayCount) ==
    IF rowValuesToDisplay.kind # ARRAY_KIND
    THEN SpecificType(FALSE, rowValuesToDisplay, formattedChildren, arrayCount)
    ELSE arrayLoopBody(rowValuesToDisplay,
                       getFormattedChildrenData(rowValuesToDisplay), arrayCount + 1)

arrayLoopBody(rowValuesToDisplay, next, arrayCount) ==
    CASE next.threw \/ next.rows = <<>> ->
            SpecificType(TRUE, rowValuesToDisplay, <<>>, arrayCount)
      [] OTHER ->
            IF next.rows[1].isExpandable
            THEN arrayLoop(next.rows[1], next.rows, arrayCount)
            ELSE SpecificType(FALSE, rowValuesToDisplay, next.rows,
                              IF next.rows[1].kind = ARRAY_KIND
                              THEN arrayCount + 1 ELSE arrayCount)

\* The part of handleSpecificTypeRowData after the loop; final is the
\* formatted children of the final rowValuesToDisplay.
finalChildren(loop, final) ==
    CASE loop.threw -> loop
      [] ~loop.threw /\ loop.rowValuesToDisplay.kind = ARRAY_KIND ->
            [loop EXCEPT !.formattedChildren = <<>>]
      [] OTHER ->
            IF final.threw
            THEN [loop EXCEPT !.threw = TRUE, !.formattedChildren = <<>>]
            ELSE [loop EXCEPT !.formattedChildren =
                      IF loop.rowValuesToDisplay.kind = MAP_KIND
                      THEN updateMapDisplayNames(final.rows) ELSE final.rows]

unwrapArrays(loop) ==
    finalChildren(loop, getFormattedChildrenData(loop.rowValuesToDisplay))

\* initialChildren: the formatted typeMetadata of the row, if it has one.
unwrapFrom(initialRowValues, initialChildren) ==
    unwrapArrays(arrayLoop(IF initialRowValues.typeMetadata # <<>>
                           THEN initialChildren[1] ELSE initialRowValues,
                           initialChildren, 0))

handleSpecificTypeRowData(initialRowValues) ==
    unwrapFrom(initialRowValues,
               IF initialRowValues.typeMetadata # <<>>
               THEN getFormattedChildrenData(initialRowValues).rows
               ELSE <<>>)

(***************************************************************************)
(* Display rows: what one <tr> of the body shows.  rowType is "row" for a  *)
(* TableRow, "opener" / "closer" for the specific-type rows, "null" for    *)
(* the null React renders nothing for.  The label of an opener or closer   *)
(* is its number of array brackets and whether it carries the map marker.  *)
(***************************************************************************)
DisplayRow(rowType, key, nestedLevel, title, isExpandable, isExpanded, brackets, map, cells, ref) ==
    [rowType |-> rowType, key |-> key, nestedLevel |-> nestedLevel,
     title |-> title, isExpandable |-> isExpandable, isExpanded |-> isExpanded,
     brackets |-> brackets, map |-> map, cells |-> cells, ref |-> ref]

Null == DisplayRow("null", <<>>, 0, "", FALSE, FALSE, 0, FALSE, {}, FALSE)

\* Mutant: a map is not a specific type.
hasSpecificTypeHandling_arraysOnly(rowValuesToDisplay, arrayCount) == arrayCount > 0

hasSpecificTypeHandling(rowValuesToDisplay, arrayCount) ==
    arrayCount > 0 \/ rowValuesToDisplay.kind = MAP_KIND

getSpecificTypeOpenerRow(rowValuesToDisplay, arrayCount, nestedLevel, additionalTableColCount) ==
    IF ~hasSpecificTypeHandling(rowValuesToDisplay, arrayCount) THEN Null
    ELSE DisplayRow("opener", rowValuesToDisplay.key, nestedLevel, "", FALSE, FALSE,
                    IF arrayCount > 0 THEN arrayCount ELSE 0,
                    rowValuesToDisplay.kind = MAP_KIND,
                    1..additionalTableColCount, FALSE)

\* Mutant: the closer of a map is left out.
getSpecificTypeCloserRow_arraysOnly(rowValuesToDisplay, arrayCount, nestedLevel, additionalTableColCount) ==
    IF arrayCount = 0 THEN Null
    ELSE DisplayRow("closer", rowValuesToDisplay.key, nestedLevel, "", FALSE, FALSE,
                    arrayCount, FALSE, 1..additionalTableColCount, FALSE)

getSpecificTypeCloserRow(rowValuesToDisplay, arrayCount, nestedLevel, additionalTableColCount) ==
    IF ~hasSpecificTypeHandling(rowValuesToDisplay, arrayCount) THEN Null
    ELSE DisplayRow("closer", rowValuesToDisplay.key, nestedLevel, "", FALSE, FALSE,
                    IF arrayCount > 0 THEN arrayCount ELSE 0,
                    rowValuesToDisplay.kind = MAP_KIND,
                    1..additionalTableColCount, FALSE)

\* The cells of a TableRow are the entries of the row that are column fields;
\* the expanding button is there when the row is expandable.
TableRow(rowValues, cols, expandedRows, nestedLevel, ref) ==
    DisplayRow("row", rowValues.key, nestedLevel, rowValues.content.title,
               rowValues.isExpandable, Includes(expandedRows, rowValues.key),
               0, FALSE, {f \in Range(cols) : f \in rowValues.fields}, ref)

(***************************************************************************)
(* The recursive materializer.  tableRowDetails carries data, columns,     *)
(* preExpandPanelKey, expandedRows, formatChildrenData and                 *)
(* preExpandRightPanel (whether the option is supplied) and nestedLevel.   *)
(* The result holds the rows, whether the pass threw, and panel: the keys  *)
(* of the items preExpandRightPanel was called with during the pass, in    *)
(* order (those before a throw included).                                  *)
(***************************************************************************)
\* The call of preExpandRightPanel that opens a turn of the reduce.
panelCall(tableRowDetails, item) ==
    IF item.key # <<>> /\ item.key = tableRowDetails.preExpandPanelKey
       /\ tableRowDetails.preExpandRightPanel
    THEN <<item.key>> ELSE <<>>

\* The rows of one item that is expanded: the parent row, the opener, the
\* rows of the children, the closer.
expandedItemRows(tableRowDetails, item, specific, childRows) ==
    IF specific.threw
    THEN [threw |-> TRUE, rows |-> <<>>, panel |-> panelCall(tableRowDetails, item)]
    ELSE IF childRows.threw
    THEN [threw |-> TRUE, rows |-> <<>>,
          panel |-> panelCall(tableRowDetails, item) \o childRows.panel]
    ELSE [threw |-> FALSE,
          panel |-> panelCall(tableRowDetails, item) \o childRows.panel,
          rows |-> <<TableRow(item, tableRowDetails.columns,
                              tableRowDetails.expandedRows,
                              tableRowDetails.nestedLevel,
                              item.key # <<>>
                                /\ item.key = tableRowDetails.preExpandPanelKey),
                     getSpecificTypeOpenerRow(specific.rowValuesToDisplay,
                         specific.arrayCount, tableRowDetails.nestedLevel,
                         Len(tableRowDetails.columns) - 1)>>
                   \o childRows.rows
                   \o <<getSpecificTypeCloserRow(specific.rowValuesToDisplay,
                            specific.arrayCount, tableRowDetails.nestedLevel,
                            Len(tableRowDetails.columns) - 1)>>]

collapsedItemRows(tableRowDetails, item) ==
    [threw |-> FALSE, panel |-> panelCall(tableRowDetails, item),
     rows |-> <<TableRow(item, tableRowDetails.columns, tableRowDetails.expandedRows,
                         tableRowDetails.nestedLevel,
                         item.key # <<>>
                           /\ item.key = tableRowDetails.preExpandPanelKey)>>]

\* Mutant: the expansion state is not consulted.
isItemExpanded_ignoresExpandedRows(tableRowDetails, item) ==
    /\ item.isExpandable
    /\ tableRowDetails.formatChildrenData

isItemExpanded(tableRowDetails, item) ==
    /\ item.isExpandable
    /\ Includes(tableRowDetails.expandedRows, item.key)
    /\ tableRowDetails.formatChildrenData

\* [...prevRows, ...the rows of the item], unless one of them threw; after a
\* throw in an earlier turn the turn of the item does not happen.
concatRows(prevRows, itemRows) ==
    IF prevRows.threw THEN prevRows
    ELSE IF itemRows.threw
    THEN [threw |-> TRUE, rows |-> <<>>, panel |-> prevRows.panel \o itemRows.panel]
    ELSE [threw |-> FALSE, rows |-> prevRows.rows \o itemRows.rows,
          panel |-> prevRows.panel \o itemRows.panel]

RECURSIVE getTableRows(_), itemRows(_, _), childTableRows(_, _, _)
getTableRows(tableRowDetails) ==
    IF tableRowDetails.data = <<>> THEN [threw |-> FALSE, rows |-> <<>>, panel |-> <<>>]
    ELSE concatRows(
             getTableRows([tableRowDetails EXCEPT !.data = Front(tableRowDetails.data)]),
             itemRows(tableRowDetails, Last(tableRowDetails.data)))

\* One turn of the reduce of getTableRows.
itemRows(tableRowDetails, item) ==
    IF isItemExpanded(tableRowDetails, item)
    THEN childTableRows(tableRowDetails, item, handleSpecificTypeRowData(item))
    ELSE collapsedItemRows(tableRowDetails, item)

childTableRows(tableRowDetails, item, specific) ==
    expandedItemRows(tableRowDetails, item, specific,
        getTableRows([tableRowDetails EXCEPT
                         !.data = specific.formattedChildren,
                         !.nestedLevel = tableRowDetails.nestedLevel + 1]))

(***************************************************************************)
(* The Table instance.                                                     *)
(*   data, columns  props.data and the fields of props.columns             *)
(*   options        props.options: preExpandPanelKey, tableKey, maxNumRows *)
(*                  ([defined, value]), formatChildrenData and             *)
(*                  callbacks (the names of the supplied ones among        *)
(*                  onExpand, onCollapse, preExpandRightPanel and          *)
(*                  toggleExpandingRows), and shouldExpandAllRows          *)
(*                  ("undefined", "true", "false"); the parent changes     *)
(*                  shouldExpandAllRows and preExpandPanelKey after mount  *)
(*   expandedRows   the React state of useTableHooks                       *)
(*   initialExpandedRows  the memoized initial expansion                   *)
(*   renderedRows   the expandedRows the last render read (and that the    *)
(*                  handlers of the rendered buttons closed over)          *)
(*   effectDep      shouldExpandAllRows as of the last run of the          *)
(*                  expand/collapse effect ("none": it never ran)          *)
(*   body           the rows of <tbody> as last rendered                   *)
(*   error          the error the last render threw: "none", the invalid   *)
(*                  data Error of Table, or a TypeError (a property of     *)
(*                  undefined was read)                                    *)
(*   scrolls        calls of scrollIntoView                                *)
(*   panelCalls     the keys of the rows preExpandRightPanel was called    *)
(*                  with since the mount, in order, up to MaxPanelCalls    *)
(*   phase          "unmounted", "effects" (rendered, effects pending),    *)
(*                  "idle", "dirty" (state or props changed, re-render     *)
(*                  pending), "crashed" (a render threw)                   *)
(*   hist           history of the last event: its kind, and for a toggle  *)
(*                  the key, whether it was expanded before, the number of *)
(*                  consecutive toggles of that key (up to 2) and the set  *)
(*                  of expanded keys before the first of them; mountFlag   *)
(*                  is shouldExpandAllRows as the table was mounted with,  *)
(*                  prev, for a change of the flag, the kind of the event  *)
(*                  before it; last the expandedRows the last event found; *)
(*                  calls the calls the last click handler made, in order; *)
(*                  base the set of expanded keys before the first of the  *)
(*                  toggles that followed the last other event, toggled    *)
(*                  the keys toggled an odd number of times since;         *)
(*                  mountKey the preExpandPanelKey the table was mounted   *)
(*                  with, and mountRef whether the first render attached   *)
(*                  expandRowRef to a row                                  *)
(***************************************************************************)
VARIABLES data, columns, options, expandedRows, initialExpandedRows,
          renderedRows, effectDep, body, error, scrolls, panelCalls, phase, hist

vars == <<data, columns, options, expandedRows, initialExpandedRows,
          renderedRows, effectDep, body, error, scrolls, panelCalls, phase, hist>>

props == <<data, columns>>

MaxNumRowsChoices ==
    {[defined |-> FALSE, value |-> 0], [defined |-> TRUE, value |-> 2],
     [defined |-> TRUE, value |-> 20]}

\* Deep-link targets: none, every key of the table, the key of a nested
\* field of a column the table does not have, a key of another table, and a
\* key whose third segment is not the type-metadata marker.
PanelKeyChoices(d) ==
    {<<>>, TableKey \o <<"zz", "type", "zz", "q">>, <<"u", "a">>,
     TableKey \o <<"zz", "bogus", "q">>}
    \cup Range(getAllColumnKeys(d))

\* Which of the optional callbacks the host page supplies.
CallbackChoices ==
    {{"onExpand"}, {"onCollapse", "toggleExpandingRows"},
     {"onExpand", "onCollapse", "preExpandRightPanel", "toggleExpandingRows"}}

\* What a callback returns to its caller.
ReturnChoices == {"undefined", "value"}

OptionChoices(d) ==
    [preExpandPanelKey : PanelKeyChoices(d), tableKey : {TableKey},
     maxNumRows : MaxNumRowsChoices, formatChildrenData : BOOLEAN,
     callbacks : CallbackChoices,
     shouldExpandAllRows : {"undefined", "true", "false"}]

INVALID_DATA_ERROR_MESSAGE == "Invalid data!"

TYPE_ERROR == "TypeError"

NoHistory ==
    [event |-> "none", key |-> <<>>, wasExpanded |-> FALSE, run |-> 0, before |-> {},
     mountFlag |-> "none", prev |-> "none", last |-> <<>>, calls |-> <<>>,
     base |-> {}, toggled |-> {}, mountKey |-> <<>>, mountRef |-> FALSE]

Init ==
    /\ data \in DataChoices
    /\ columns \in ColumnChoices
    /\ options \in OptionChoices(data)
    /\ expandedRows = <<>>
    /\ initialExpandedRows = <<>>
    /\ renderedRows = <<>>
    /\ effectDep = "none"
    /\ body = <<>>
    /\ error = "none"
    /\ scrolls = 0
    /\ panelCalls = <<>>
    /\ phase = "unmounted"
    /\ hist = NoHistory

EmptyRow == DisplayRow("empty", <<>>, 0, "", FALSE, FALSE, 0, FALSE, {}, FALSE)

renderedRowsOf(r) ==
    [error |-> IF r.threw THEN TYPE_ERROR ELSE "none", panel |-> r.panel,
     rows |-> SelectSeq(r.rows, LAMBDA row : row.rowType # "null")]

\* The body the Table function computes from the expansion state it reads:
\* the EmptyRow for no data, a throw for invalid data, else getTableRows at
\* nestedLevel 0.  React renders nothing for the null entries.
renderBody(expanded) ==
    IF Len(data) = 0 THEN [error |-> "none", rows |-> <<EmptyRow>>, panel |-> <<>>]
    ELSE IF ~checkIfValidData(data, columns)
    THEN [error |-> INVALID_DATA_ERROR_MESSAGE, rows |-> <<>>, panel |-> <<>>]
    ELSE renderedRowsOf(
             getTableRows([data |-> data, columns |-> columns,
                           preExpandPanelKey |-> options.preExpandPanelKey,
                           expandedRows |-> expanded,
                           formatChildrenData |-> options.formatChildrenData,
                           preExpandRightPanel |->
                               "preExpandRightPanel" \in options.callbacks,
                           nestedLevel |-> 0]))

\* The record of the calls of preExpandRightPanel after a render pass that
\* made the calls panel.
recordPanelCalls(calls, panel) ==
    SubSeq(calls \o panel, 1,
           IF Len(calls) + Len(panel) < MaxPanelCalls
           THEN Len(calls) + Len(panel) ELSE MaxPanelCalls)

\* The first render: useMemo, useState(initialExpandedRows), the body.
Mount ==
    /\ phase = "unmounted"
    /\ LET allColumnKeys == getAllColumnKeys(data)
           initial == getInitialExpandedRows(data, allColumnKeys, options.maxNumRows,
                          options.preExpandPanelKey, options.tableKey)
           r == renderBody(initial)
       IN  /\ initialExpandedRows' = initial
           /\ expandedRows' = initial
           /\ renderedRows' = initial
           /\ body' = r.rows
           /\ error' = r.error
           /\ panelCalls' = recordPanelCalls(panelCalls, r.panel)
           /\ phase' = IF r.error # "none" THEN "crashed" ELSE "effects"
    /\ hist' = [hist EXCEPT !.mountFlag = options.shouldExpandAllRows,
                            !.mountKey = options.preExpandPanelKey,
                            !.mountRef = \E i \in 1..Len(body') : body'[i].ref]
    /\ UNCHANGED <<props, options, effectDep, scrolls>>

\* Mutant: a false flag leaves the expansion as it is.
expandOrCollapseAllRows_skipsCollapse(allColumnKeys, current) ==
    IF options.shouldExpandAllRows = "true"
    THEN [rows |-> allColumnKeys, set |-> TRUE, flag |-> "true"]
    ELSE [rows |-> current, set |-> FALSE, flag |-> options.shouldExpandAllRows]

\* What expandOrCollapseAllRows does to [expandedRows, shouldExpandAllRows].
\* toggleExpandingRows is the parent's: it sets its flag to false so the page
\* offers to expand all rows.
expandOrCollapseAllRows(allColumnKeys, current) ==
    LET flag == options.shouldExpandAllRows
        maxRows == options.maxNumRows
    IN  IF flag # "undefined"
        THEN [rows |-> IF flag = "true" THEN allColumnKeys ELSE <<>>,
              set |-> TRUE, flag |-> flag]
        ELSE IF maxRows.defined /\ maxRows.value # 0
                /\ Len(allColumnKeys) > maxRows.value
        THEN IF Len(initialExpandedRows) > 0
             THEN [rows |-> initialExpandedRows, set |-> TRUE, flag |-> flag]
             ELSE IF "toggleExpandingRows" \in options.callbacks
             THEN [rows |-> current, set |-> FALSE, flag |-> "false"]
             ELSE [rows |-> current, set |-> FALSE, flag |-> flag]
        ELSE [rows |-> current, set |-> FALSE, flag |-> flag]

\* Mutant: the scroll effect runs with every run of the effects.
scrollEffect_everyRun(firstRun, rows, n) ==
    IF \E i \in 1..Len(rows) : rows[i].ref THEN n + 1 ELSE n

\* The scroll effect (its dependencies are []: it runs after the first render
\* only): scrollIntoView if expandRowRef is attached to a row.
scrollEffect(firstRun, rows, n) ==
    IF firstRun /\ \E i \in 1..Len(rows) : rows[i].ref THEN n + 1 ELSE n

\* The passive effects after a render: the expand/collapse effect (its
\* dependency is shouldExpandAllRows) and, after the first render only, the
\* scroll to the row holding expandRowRef.
RunEffects ==
    /\ phase = "effects"
    /\ LET e == expandOrCollapseAllRows(getAllColumnKeys(data), expandedRows)
       IN  /\ expandedRows' = e.rows
           /\ options' = [options EXCEPT !.shouldExpandAllRows = e.flag]
           /\ phase' = IF e.set \/ e.flag # options.shouldExpandAllRows
                       THEN "dirty" ELSE "idle"
    /\ effectDep' = options.shouldExpandAllRows
    /\ scrolls' = scrollEffect(effectDep = "none", body, scrolls)
    /\ UNCHANGED <<props, initialExpandedRows, renderedRows, body, error, panelCalls,
                   hist>>

\* Mutant: the buttons keep the expansion state of the render before.
buttonExpandedRows_stale(current, previous) == previous

\* The expandedRows prop the rows and their expanding buttons receive in a
\* render: the state as that render reads it.
buttonExpandedRows(current, previous) == current

\* A re-render after a state or prop change.
Render ==
    /\ phase = "dirty"
    /\ LET r == renderBody(expandedRows)
       IN  /\ body' = r.rows
           /\ error' = r.error
           /\ panelCalls' = recordPanelCalls(panelCalls, r.panel)
           /\ phase' = IF r.error # "none" THEN "crashed"
                       ELSE IF options.shouldExpandAllRows # effectDep THEN "effects"
                       ELSE "idle"
    /\ renderedRows' = buttonExpandedRows(expandedRows, renderedRows)
    /\ UNCHANGED <<props, options, expandedRows, initialExpandedRows, effectDep,
                   scrolls, hist>>

\* Mutant: expanding a key collapses the others.
newExpandedRows_replaces(rows, rowKey) ==
    IF Includes(rows, rowKey)
    THEN SelectSeq(rows, LAMBDA k : k # rowKey)
    ELSE <<rowKey>>

\* Mutant: the key is appended whether or not it is there.
newExpandedRows_alwaysAppends(rows, rowKey) == Append(rows, rowKey)

\* The new expansion state handleExpandButton submits for rowKey.
newExpandedRows(rows, rowKey) ==
    IF Includes(rows, rowKey)
    THEN SelectSeq(rows, LAMBDA k : k # rowKey)
    ELSE Append(rows, rowKey)

\* A call made by the click handler: the function, its rowValues and key
\* arguments (for onClick: the new expansion state), and what it returned.
Call(fn, rowValues, key, rows, returned) ==
    [fn |-> fn, rowValues |-> rowValues, key |-> key, rows |-> rows,
     returned |-> returned]

\* Mutant: both callbacks are fired when supplied.
expandCallbacks_firesBoth(isExpanded, supplied, rowValues, rowKey, returned) ==
    (IF "onExpand" \in supplied
     THEN <<Call("onExpand", rowValues, rowKey, <<>>, returned)>> ELSE <<>>)
    \o (IF "onCollapse" \in supplied
        THEN <<Call("onCollapse", rowValues, rowKey, <<>>, returned)>> ELSE <<>>)

\* The two ifs that end handleExpandButton.
expandCallbacks(isExpanded, supplied, rowValues, rowKey, returned) ==
    (IF ~isExpanded /\ "onExpand" \in supplied
     THEN <<Call("onExpand", rowValues, rowKey, <<>>, returned)>> ELSE <<>>)
    \o (IF isExpanded /\ "onCollapse" \in supplied
        THEN <<Call("onCollapse", rowValues, rowKey, <<>>, returned)>> ELSE <<>>)

\* A click on the expanding button of a rendered expandable row: onClick
\* (setExpandedRows) with the new expansion state, then the callbacks.
HandleExpandButton(i, returned) ==
    /\ phase = "idle"
    /\ body[i].rowType = "row" /\ body[i].isExpandable
    /\ LET rowKey == body[i].key
           isExpanded == Includes(renderedRows, rowKey)
           again == hist.event = "toggle" /\ hist.key = rowKey /\ hist.run = 1
       IN  /\ expandedRows' = newExpandedRows(renderedRows, rowKey)
           /\ hist' = [event |-> "toggle", key |-> rowKey,
                       wasExpanded |-> Includes(expandedRows, rowKey),
                       run |-> IF again THEN 2 ELSE 1,
                       before |-> IF again THEN hist.before ELSE Range(expandedRows),
                       mountFlag |-> hist.mountFlag, prev |-> "none",
                       mountKey |-> hist.mountKey, mountRef |-> hist.mountRef,
                       last |-> expandedRows,
                       base |-> IF hist.event = "toggle" THEN hist.base
                                ELSE Range(expandedRows),
                       toggled |-> IF hist.event # "toggle" THEN {rowKey}
                                   ELSE IF rowKey \in hist.toggled
                                   THEN hist.toggled \ {rowKey}
                                   ELSE hist.toggled \cup {rowKey},
                       calls |-> <<Call("onClick", Null, <<>>,
                                        newExpandedRows(renderedRows, rowKey),
                                        "undefined")>>
                                 \o expandCallbacks(isExpanded, options.callbacks,
                                                    body[i], rowKey, returned)]
    /\ phase' = "dirty"
    /\ UNCHANGED <<props, options, initialExpandedRows, renderedRows, effectDep,
                   body, error, scrolls, panelCalls>>

\* The parent flips its expand-all flag (the expand / collapse all button).
ToggleExpandingRows(flag) ==
    /\ phase = "idle"
    /\ flag # options.shouldExpandAllRows
    /\ options' = [options EXCEPT !.shouldExpandAllRows = flag]
    /\ hist' = [NoHistory EXCEPT !.event = "flag", !.mountFlag = hist.mountFlag,
                                 !.prev = hist.event, !.last = expandedRows,
                                 !.mountKey = hist.mountKey,
                                 !.mountRef = hist.mountRef]
    /\ phase' = "dirty"
    /\ UNCHANGED <<props, expandedRows, initialExpandedRows, renderedRows, effectDep,
                   body, error, scrolls, panelCalls>>

\* The deep-link target a table mounted without one is given later: the last
\* key of the table.
NewPanelKeyChoices(d) ==
    IF getAllColumnKeys(d) = <<>> THEN {} ELSE {Last(getAllColumnKeys(d))}

\* The parent passes a preExpandPanelKey to a table that had none: the
\* memoized initialExpandedRows is computed anew in the re-render, the state
\* is not.
ChangePreExpandPanelKey(panelKey) ==
    /\ phase = "idle"
    /\ options.preExpandPanelKey = <<>>
    /\ options' = [options EXCEPT !.preExpandPanelKey = panelKey]
    /\ initialExpandedRows' =
           getInitialExpandedRows(data, getAllColumnKeys(data), options.maxNumRows,
                                  panelKey, options.tableKey)
    /\ hist' = [NoHistory EXCEPT !.event = "target", !.mountFlag = hist.mountFlag,
                                 !.mountKey = hist.mountKey,
                                 !.mountRef = hist.mountRef]
    /\ phase' = "dirty"
    /\ UNCHANGED <<props, expandedRows, renderedRows, effectDep, body, error, scrolls,
                   panelCalls>>

Next ==
    \/ Mount
    \/ RunEffects
    \/ Render
    \/ \E i \in 1..Len(body), returned \in ReturnChoices :
          HandleExpandButton(i, returned)
    \/ \E flag \in {"true", "false"} : ToggleExpandingRows(flag)
    \/ \E panelKey \in NewPanelKeyChoices(data) : ChangePreExpandPanelKey(panelKey)

Spec == Init /\ [][Next]_vars

(***************************************************************************)
(* Properties.                                                             *)
(***************************************************************************)
\* The body shown is the one rendered from renderedRows.
Rendered == phase \in {"effects", "idle", "dirty"}

\* All rows of a tree: the rows themselves, the roots of their typeMetadata
\* and their children, recursively.
RECURSIVE AllRows(_)
AllRows(rows) ==
    UNION {{rows[i]} \cup AllRows(rows[i].typeMetadata) \cup AllRows(rows[i].children) :
           i \in 1..Len(rows)}

HasNesting(d) == \E r \in AllRows(d) : r.typeMetadata = <<>> /\ r.children # <<>>

\* C1: materializing a tree of any depth with an empty expansion set gives
\* exactly one display row per top-level row, in input order, at nestedLevel 0,
\* with no opener or closer row and no row of a descendant.
C1_EmptyExpansionShowsTopLevelOnly ==
    (Rendered /\ renderedRows = <<>> /\ Len(data) > 0) =>
        /\ Len(body) = Len(data)
        /\ \A i \in 1..Len(body) :
              /\ body[i].rowType = "row"
              /\ body[i].key = data[i].key
              /\ body[i].nestedLevel = 0
              /\ ~body[i].isExpanded

\* A nested table, collapsed by the external flag after it was shown expanded.
C1_Witness ==
    /\ phase = "idle" /\ renderedRows = <<>> /\ HasNesting(data)
    /\ options.formatChildrenData
    /\ hist.event = "flag" /\ hist.mountFlag = "true"
    /\ Len(body) = Len(data) /\ Len(data) > 1

\* C2: after a toggle of key k, k is expanded iff it was not before; after two
\* toggles of k in succession the set of expanded keys is the set there was
\* before the first.
C2_ToggleNegatesAndRoundTrips ==
    (hist.event = "toggle") =>
        /\ Includes(expandedRows, hist.key) = ~hist.wasExpanded
        /\ hist.run = 2 => Range(expandedRows) = hist.before

\* A key in the middle of the expanded keys, collapsed and expanded again.
C2_Witness ==
    /\ hist.event = "toggle" /\ hist.run = 2 /\ ~hist.wasExpanded
    /\ phase = "idle"
    /\ Len(expandedRows) > 2 /\ Last(expandedRows) = hist.key
    /\ Range(expandedRows) = hist.before

\* The row of the tree with key k.
RowByKey(k) == CHOOSE r \in AllRows(data) : r.key = k

\* What unwrapping starts from: the root of the typeMetadata, else the row.
TypeRootOf(row) == IF row.typeMetadata # <<>> THEN row.typeMetadata[1] ELSE row

\* The number of array layers of an array<...<array<scalar>>> whose scalar
\* element is a row of its own; 0 for anything else.
RECURSIVE ScalarArrayDepth(_)
ScalarArrayDepth(row) ==
    IF row.kind # ARRAY_KIND \/ Len(row.children) # 1 THEN 0
    ELSE IF row.children[1].kind = ARRAY_KIND
    THEN IF ScalarArrayDepth(row.children[1]) = 0 THEN 0
         ELSE 1 + ScalarArrayDepth(row.children[1])
    ELSE IF row.children[1].isExpandable THEN 0 ELSE 1

\* The rendered row at i is an expanded row holding an array of scalars.
IsExpandedScalarArray(i) ==
    /\ body[i].rowType = "row" /\ body[i].isExpandable /\ body[i].isExpanded
    /\ options.formatChildrenData
    /\ ScalarArrayDepth(TypeRootOf(RowByKey(body[i].key))) > 0

\* C3 as stated: an expanded array nested N deep with a scalar terminal shows
\* an opener with N brackets, one row for the terminal scalar, and a closer
\* with N brackets.
C3_Original ==
    Rendered =>
        \A i \in 1..Len(body) : IsExpandedScalarArray(i) =>
            LET n == ScalarArrayDepth(TypeRootOf(RowByKey(body[i].key)))
            IN  /\ i + 3 <= Len(body)
                /\ body[i + 1].rowType = "opener" /\ body[i + 1].brackets = n
                /\ body[i + 2].rowType = "row"
                /\ body[i + 2].nestedLevel = body[i].nestedLevel + 1
                /\ body[i + 3].rowType = "closer" /\ body[i + 3].brackets = n

\* C3, amended: an expanded array nested N deep with a scalar terminal shows,
\* right after the parent row, one opener with N array brackets (and no map
\* marker) immediately followed by one closer with N brackets: no row for an
\* intermediate array layer and no row for the terminal scalar.
C3_ArrayOfScalarsShowsBracketsOnly ==
    Rendered =>
        \A i \in 1..Len(body) : IsExpandedScalarArray(i) =>
            LET n == ScalarArrayDepth(TypeRootOf(RowByKey(body[i].key)))
            IN  /\ i + 2 <= Len(body)
                /\ body[i + 1].rowType = "opener" /\ body[i + 1].brackets = n
                /\ ~body[i + 1].map
                /\ body[i + 1].nestedLevel = body[i].nestedLevel
                /\ body[i + 2].rowType = "closer" /\ body[i + 2].brackets = n
                /\ ~body[i + 2].map
                /\ body[i + 2].key = body[i + 1].key

\* A three-dimensional array column and a two-dimensional array field, shown
\* expanded.
C3_Witness ==
    /\ phase = "idle"
    /\ \/ /\ data = ArrayTable(3) /\ Len(body) = 4
          /\ IsExpandedScalarArray(1) /\ body[2].brackets = 3
       \/ /\ data = StructOfArraysTable /\ Len(body) = 4
          /\ IsExpandedScalarArray(2) /\ body[3].brackets = 2 /\ body[2].nestedLevel = 1

\* The title a child of a map is shown under.
ExpectedMapTitle(name) ==
    IF name = MAP_KEY_NAME THEN "Key" ELSE IF name = MAP_VALUE_NAME THEN "Value" ELSE name

CloserOf(i) ==
    CHOOSE j \in (i + 1)..Len(body) :
        /\ body[j].rowType = "closer" /\ body[j].key = body[i].key
        /\ body[j].nestedLevel = body[i].nestedLevel

\* The rows between the opener at i and its closer, one level below it.
ChildRowsOf(i) ==
    SelectSeq(SubSeq(body, i + 1, CloserOf(i) - 1),
              LAMBDA r : r.rowType = "row" /\ r.nestedLevel = body[i].nestedLevel + 1)

\* C4: the child rows of an expanded map are titled "Key" for the child named
\* by the internal key role and "Value" for the one named by the value role,
\* never by the internal names; a child of any other name keeps its name.  A
\* map with the two role children shows exactly two child rows.
C4_MapChildrenTitledKeyAndValue ==
    Rendered =>
        \A i \in 1..Len(body) : (body[i].rowType = "opener" /\ body[i].map) =>
            LET children == RowByKey(body[i].key).children
                shown == ChildRowsOf(i)
            IN  /\ Len(shown) = Len(children)
                /\ \A c \in 1..Len(shown) :
                      /\ shown[c].key = children[c].key
                      /\ shown[c].title = ExpectedMapTitle(children[c].name)
                      /\ shown[c].title \notin {MAP_KEY_NAME, MAP_VALUE_NAME}

\* A map with the two role children, and under its value a map with a child
\* of another name.
C4_Witness ==
    /\ phase = "idle"
    /\ \E i, j \in 1..Len(body) :
          /\ body[i].rowType = "opener" /\ body[i].map
          /\ Len(ChildRowsOf(i)) = 2
          /\ ChildRowsOf(i)[1].title = "Key" /\ ChildRowsOf(i)[2].title = "Value"
          /\ body[j].rowType = "opener" /\ body[j].map /\ j > i
          /\ ChildRowsOf(j)[2].title = "extra"

\* The keys of the rows of a tree (what allColumnKeys lists), as a set.
RECURSIVE KeysOf(_)
KeysOf(rows) ==
    UNION {{rows[i].key}
           \cup (IF rows[i].typeMetadata # <<>>
                 THEN KeysOf(rows[i].typeMetadata[1].children) ELSE {})
           \cup KeysOf(rows[i].children) : i \in 1..Len(rows)}

\* The lengths of the prefixes of the target key that the path grammar
\* names: <table>/<column>, then <table>/<column>/type/<name> and every
\* longer prefix.
PathPrefixLengths(target, tbl) ==
    IF Len(target) <= Len(tbl) \/ SubSeq(target, 1, Len(tbl)) # tbl THEN {}
    ELSE {Len(tbl) + 1}
         \cup (IF Len(target) >= Len(tbl) + 3 /\ target[Len(tbl) + 2] = "type"
               THEN (Len(tbl) + 3)..Len(target) ELSE {})

PathPrefixKeys(target, tbl) ==
    {SubSeq(target, 1, n) : n \in PathPrefixLengths(target, tbl)}

\* No event has happened since the table was mounted.
JustMounted == Rendered /\ hist.event = "none"

ExceedsMaximum ==
    options.maxNumRows.defined /\ Cardinality(KeysOf(data)) > options.maxNumRows.value

WithinMaximum ==
    options.maxNumRows.defined /\ Cardinality(KeysOf(data)) <= options.maxNumRows.value

\* C5: when the table has more keys than the configured maximum and the
\* expand-all flag is not given, the initial expansion is not the full key
\* set: it is exactly the path-prefix keys of the deep-link target (each
\* once), and empty when no target is supplied.
C5_LargeTableExpandsOnlyTargetPath ==
    (JustMounted /\ hist.mountFlag = "undefined" /\ ExceedsMaximum) =>
        /\ Range(expandedRows)
             = PathPrefixKeys(options.preExpandPanelKey, options.tableKey)
        /\ Len(expandedRows) = Cardinality(Range(expandedRows))
        /\ options.preExpandPanelKey = <<>> => expandedRows = <<>>
        /\ Range(expandedRows) # KeysOf(data)

\* A table of five keys with a maximum of two, mounted with a deep link to a
\* field three levels down: the four prefixes are expanded and the field shows.
C5_Witness ==
    /\ phase = "idle" /\ JustMounted /\ hist.mountFlag = "undefined" /\ ExceedsMaximum
    /\ data = StructTable
    /\ options.preExpandPanelKey = TypeKey("s") \o <<"y", "z">>
    /\ Len(expandedRows) = 4
    /\ \E i \in 1..Len(body) : body[i].key = options.preExpandPanelKey /\ body[i].ref

\* C6: when the table has at most the configured maximum of keys, the initial
\* expansion (by default: the expand-all flag not forcing a collapse) is the
\* full set of keys, with or without a deep-link target.
C6_SmallTableExpandsAll ==
    (JustMounted /\ hist.mountFlag # "false" /\ WithinMaximum) =>
        /\ Range(expandedRows) = KeysOf(data)
        /\ Len(expandedRows) = Cardinality(KeysOf(data))

\* A nested table of as many keys as the maximum allows or fewer, with a
\* deep-link target, after its mount effects.
C6_Witness ==
    /\ phase = "idle" /\ JustMounted /\ hist.mountFlag = "undefined" /\ WithinMaximum
    /\ data = StructTable
    /\ options.preExpandPanelKey = TypeKey("s") \o <<"x">>
    /\ Len(expandedRows) = 5

\* Some column field is defined by no row of the data.
SomeFieldNowhereDefined ==
    \E f \in Range(columns) : \A i \in 1..Len(data) : f \notin data[i].fields

\* C7: for non-empty data, if a column field is defined by no row, the render
\* throws the invalid-data error and shows no row.
C7_UndefinedFieldFailsValidation ==
    (phase # "unmounted" /\ Len(data) > 0 /\ SomeFieldNowhereDefined) =>
        /\ phase = "crashed"
        /\ error = INVALID_DATA_ERROR_MESSAGE
        /\ body = <<>>

\* A nested table rendered with a column whose field no row has.
C7_Witness ==
    /\ phase = "crashed" /\ error = INVALID_DATA_ERROR_MESSAGE
    /\ SomeFieldNowhereDefined /\ HasNesting(data) /\ Len(columns) = 2

\* C8 as stated: if any one row leaves a column field undefined, the render
\* fails validation, even when other rows define the field.
C8_Original ==
    (phase # "unmounted" /\ Len(data) > 0
       /\ \E f \in Range(columns) : \E i \in 1..Len(data) : f \notin data[i].fields) =>
        /\ phase = "crashed"
        /\ error = INVALID_DATA_ERROR_MESSAGE

\* C9 as stated: every key in the expansion set is the key of an expandable
\* row.
C9_Original ==
    Rendered =>
        \A k \in Range(expandedRows) :
            \E r \in AllRows(data) : r.key = k /\ r.isExpandable

\* C9, amended: in every state of the table (after mount, toggles and
\* expand-all / collapse-all) every key in the expansion set is the key of a
\* row of the tree, expandable or not, or one of the path-prefix keys of the
\* deep-link target the table was mounted with.
C9_ExpandedKeysAreRowOrTargetPathKeys ==
    Rendered =>
        \A k \in Range(expandedRows) :
            \/ k \in KeysOf(data)
            \/ k \in PathPrefixKeys(hist.mountKey, options.tableKey)

\* After an expand-all and a toggle the set still holds the key of a row
\* that is not expandable.
C9_Witness ==
    /\ phase = "idle" /\ hist.event = "toggle"
    /\ \E k \in Range(expandedRows) :
          /\ k \in KeysOf(data)
          /\ ~RowByKey(k).isExpandable
    /\ \E k \in Range(expandedRows) : k \in KeysOf(data) /\ RowByKey(k).isExpandable

\* The keys of the rows below row a.
SubtreeKeys(a) == {r.key : r \in AllRows(a.typeMetadata) \cup AllRows(a.children)}

IsTypeRoot(a) == \E r \in AllRows(data) : r.typeMetadata = <<a>>

\* Unwrapping shows no row for a: a is the typeMetadata root of a column, or
\* an element of an array.
IsSkipped(a) ==
    \/ IsTypeRoot(a)
    \/ \E p \in AllRows(data) : p.kind = ARRAY_KIND /\ a \in Range(p.children)

\* C10 as stated: a row is shown only if the keys of all its ancestors are in
\* the expansion set, those of intermediate array layers included (a column
\* and the root of its typeMetadata count as one row, unless the root is an
\* array layer).
C10_Original ==
    Rendered =>
        \A i \in 1..Len(body) : body[i].rowType = "row" =>
            \A a \in AllRows(data) :
                (body[i].key \in SubtreeKeys(a)
                   /\ (IsTypeRoot(a) => a.kind = ARRAY_KIND)) =>
                    Includes(renderedRows, a.key)

\* C10, amended: a row is shown only if the key of every ancestor that is
\* itself materialized as a row is in the expansion set; the layers that
\* unwrapping skips (the typeMetadata root, the array layers and the element
\* of an array) need not be in it.
C10_ShownOnlyUnderExpandedShownAncestors ==
    Rendered =>
        \A i \in 1..Len(body) : body[i].rowType = "row" =>
            \A a \in AllRows(data) :
                (body[i].key \in SubtreeKeys(a) /\ ~IsSkipped(a)) =>
                    /\ Includes(renderedRows, a.key)
                    /\ \E j \in 1..(i - 1) : body[j].rowType = "row" /\ body[j].key = a.key

\* The fields of an array<array<struct>> column shown with only the key of
\* the column expanded, and a field two struct levels down shown with both
\* of its shown ancestors expanded.
C10_Witness ==
    /\ phase = "idle"
    /\ \/ /\ data = ArrayStructTable /\ renderedRows = <<ColKey("as")>>
          /\ Len(body) = 5 /\ body[3].nestedLevel = 1
       \/ /\ data = StructTable
          /\ \E i \in 1..Len(body) : body[i].rowType = "row" /\ body[i].nestedLevel = 2

\* The expand / collapse effect has run for the current value of the flag and
\* no toggle has happened since.
FlagApplied ==
    /\ phase \in {"dirty", "idle"}
    /\ effectDep = options.shouldExpandAllRows
    /\ hist.event \in {"none", "flag"}

\* C11: once the effect has run for a value of shouldExpandAllRows, on mount
\* or after a change of the flag, the expansion is all of allColumnKeys when
\* the flag is true and empty when it is false, whatever toggles came before;
\* the next render reads that expansion.
C11_FlagForcesAllOrNone ==
    (FlagApplied /\ options.shouldExpandAllRows # "undefined") =>
        /\ expandedRows = IF options.shouldExpandAllRows = "true"
                          THEN getAllColumnKeys(data) ELSE <<>>
        /\ phase = "idle" => renderedRows = expandedRows

\* A flag turned to true after toggles had collapsed rows, and a flag turned
\* to false after a toggle.
C11_Witness ==
    /\ phase = "idle" /\ hist.event = "flag" /\ hist.prev = "toggle"
    /\ effectDep = options.shouldExpandAllRows
    /\ \/ /\ options.shouldExpandAllRows = "true"
          /\ Len(expandedRows) > 2 /\ Range(hist.last) # Range(expandedRows)
       \/ /\ options.shouldExpandAllRows = "false"
          /\ expandedRows = <<>> /\ hist.last # <<>>

\* The callbacks the last click fired after onClick.
FiredCallbacks == SubSeq(hist.calls, 2, Len(hist.calls))

\* C12: a single-key toggle first submits the new expansion state and then
\* fires at most one callback, with the row and key toggled: onExpand if the
\* key was not expanded and onExpand is supplied, onCollapse if it was and
\* onCollapse is supplied (exactly one when both are supplied); the state
\* submitted is the toggle of the state before, whatever the callback returns.
C12_ToggleSubmitsThenFiresOneCallback ==
    (hist.event = "toggle") =>
        /\ Len(hist.calls) >= 1
        /\ hist.calls[1].fn = "onClick" /\ hist.calls[1].rows = expandedRows
        /\ Range(expandedRows) = IF hist.wasExpanded
                                 THEN Range(hist.last) \ {hist.key}
                                 ELSE Range(hist.last) \cup {hist.key}
        /\ Len(FiredCallbacks) <= 1
        /\ \A c \in Range(FiredCallbacks) :
              /\ c.fn = IF hist.wasExpanded THEN "onCollapse" ELSE "onExpand"
              /\ c.key = hist.key
              /\ c.rowValues.rowType = "row" /\ c.rowValues.key = hist.key
        /\ Len(FiredCallbacks) = 1
             <=> (IF hist.wasExpanded THEN "onCollapse" ELSE "onExpand")
                   \in options.callbacks

\* With both callbacks supplied: a collapse that fired onCollapse and returned
\* a value, right after an expand of the same key that fired onExpand.
C12_Witness ==
    /\ hist.event = "toggle" /\ hist.wasExpanded /\ hist.run = 2
    /\ {"onExpand", "onCollapse"} \subseteq options.callbacks
    /\ Len(hist.calls) = 2 /\ hist.calls[2].fn = "onCollapse"
    /\ hist.calls[2].returned = "value"
    /\ ~Includes(expandedRows, hist.key) /\ Len(expandedRows) > 0

\* C13 as stated: over the lifetime of the table, whatever re-renders toggles
\* and changes of the expand-all flag cause, preExpandRightPanel is called at
\* most once, and only with the row whose key is the deep-link target.
C13_Original ==
    /\ Len(panelCalls) <= 1
    /\ \A k \in Range(panelCalls) :
          k \in {hist.mountKey, options.preExpandPanelKey}

\* The row is marked expandable and has neither typeMetadata nor children.
LacksChildData(r) == r.isExpandable /\ r.typeMetadata = <<>> /\ ~r.hasChildren

\* C14 as stated: when the render reads an expansion that holds the key of an
\* expandable row without child data, it completes without error and shows
\* the row with no child row, opener or closer after it.
C14_Original ==
    (phase # "unmounted" /\ checkIfValidData(data, columns)) =>
        \A i \in 1..Len(data) :
            (LacksChildData(data[i]) /\ Includes(renderedRows, data[i].key)) =>
                /\ error = "none"
                /\ \E j \in 1..Len(body) :
                      /\ body[j].rowType = "row" /\ body[j].key = data[i].key
                      /\ j < Len(body) =>
                            body[j + 1].rowType = "row" /\ body[j + 1].nestedLevel = 0

\* The key begins with the table key and one more segment.
HasColumnPrefix(target, tbl) ==
    Len(target) > Len(tbl) /\ SubSeq(target, 1, Len(tbl)) = tbl

\* The whole key follows the path grammar: the table key, a column-name
\* segment, and then nothing or the marker "type" and one segment or more.
FollowsPathGrammar(target, tbl) ==
    /\ HasColumnPrefix(target, tbl)
    /\ \/ Len(target) = Len(tbl) + 1
       \/ Len(target) >= Len(tbl) + 3 /\ target[Len(tbl) + 2] = "type"

\* The table was mounted with a deep-link target that does not follow the
\* path grammar, and the initial expansion came from getKeysToExpand.
MountedWithMalformedTarget ==
    /\ phase # "unmounted" /\ ~WithinMaximum
    /\ options.preExpandPanelKey # <<>>
    /\ ~FollowsPathGrammar(options.preExpandPanelKey, options.tableKey)

C16_RenderReflectsEveryToggle ==
    (hist.event = "toggle") =>
        /\ Range(expandedRows)
             = (hist.base \ hist.toggled) \cup (hist.toggled \ hist.base)
        /\ phase = "idle" => renderedRows = expandedRows

\* Toggles of two distinct keys, one expanded and one collapsed, both read
\* by the render that followed.
C16_Witness ==
    /\ hist.event = "toggle" /\ phase = "idle"
    /\ Cardinality(hist.toggled) >= 2
    /\ hist.toggled \cap hist.base # {} /\ hist.toggled \ hist.base # {}
    /\ renderedRows = expandedRows
    /\ hist.toggled \cap hist.base \cap Range(renderedRows) = {}
    /\ (hist.toggled \ hist.base) \subseteq Range(renderedRows)

\* The effective children of a type: array layers are walked through while
\* their element is expandable; an array of anything else has none.
RECURSIVE EffectiveChildren(_)
EffectiveChildren(r) ==
    IF r.kind # ARRAY_KIND THEN r.children
    ELSE IF Len(r.children) > 0 /\ r.children[1].isExpandable
    THEN EffectiveChildren(r.children[1])
    ELSE <<>>

\* The kind the walk through the array layers ends at.
RECURSIVE UnwrappedKind(_)
UnwrappedKind(r) ==
    IF r.kind = ARRAY_KIND /\ Len(r.children) > 0 /\ r.children[1].isExpandable
    THEN UnwrappedKind(r.children[1])
    ELSE r.kind

\* The index after the last entry of the body that belongs to the row at i:
\* the next row at its level or above, or the next bracket of a level above.
EndOf(i) ==
    LET after == {j \in (i + 1)..Len(body) :
                     \/ body[j].rowType = "row"
                          /\ body[j].nestedLevel <= body[i].nestedLevel
                     \/ body[j].rowType # "row"
                          /\ body[j].nestedLevel < body[i].nestedLevel}
    IN  IF after = {} THEN Len(body) + 1
        ELSE CHOOSE j \in after : \A k \in after : j <= k

\* What the body shows below the row at i.
BelowRow(i) == SubSeq(body, i + 1, EndOf(i) - 1)

\* The brackets of the row itself, and the rows of its children.
OwnBrackets(below, level) ==
    SelectSeq(below, LAMBDA r : r.rowType # "row" /\ r.nestedLevel = level)

ChildRows(below, level) ==
    SelectSeq(below, LAMBDA r : r.rowType = "row" /\ r.nestedLevel = level + 1)

\* The rendered row at i is expandable, expanded, and its children can be
\* formatted.
IsExpandedRow(i) ==
    /\ body[i].rowType = "row" /\ body[i].isExpandable
    /\ Includes(renderedRows, body[i].key)
    /\ options.formatChildrenData

\* C17: an expandable row whose key is expanded is followed by its effective
\* children one level below it, in order.  If its type is an array or
\* unwraps to a map, the children are enclosed: the row, one opener, the
\* children and what they show, one closer; otherwise the children come
\* right after the row and it has no opener or closer.
C17_BracketsEncloseChildrenOfArraysAndMaps ==
    Rendered =>
        \A i \in 1..Len(body) : IsExpandedRow(i) =>
            LET root == TypeRootOf(RowByKey(body[i].key))
                below == BelowRow(i)
                level == body[i].nestedLevel
                children == EffectiveChildren(root)
                shown == ChildRows(below, level)
            IN  /\ Len(shown) = Len(children)
                /\ \A c \in 1..Len(shown) : shown[c].key = children[c].key
                /\ IF root.kind = ARRAY_KIND \/ UnwrappedKind(root) = MAP_KIND
                   THEN /\ Len(below) >= 2
                        /\ below[1].rowType = "opener" /\ below[1].nestedLevel = level
                        /\ below[Len(below)].rowType = "closer"
                        /\ below[Len(below)].nestedLevel = level
                        /\ Len(OwnBrackets(below, level)) = 2
                   ELSE /\ OwnBrackets(below, level) = <<>>
                        /\ below # <<>> => below[1] = shown[1]

\* A struct whose field is an array of structs, all expanded: the field row
\* follows the struct row directly, and its own child is enclosed.
C17_Witness ==
    /\ phase = "idle" /\ data = StructArrayTable /\ Len(body) = 5
    /\ IsExpandedRow(1) /\ IsExpandedRow(2)
    /\ body[2].rowType = "row" /\ body[2].nestedLevel = 1
    /\ body[3].rowType = "opener" /\ body[4].nestedLevel = 2
    /\ body[5].rowType = "closer"

\* Some row of the body holds expandRowRef.
TargetRowShown == \E i \in 1..Len(body) : body[i].ref

\* C18: scrollIntoView is called at most once in the life of the table: by
\* the effects of the first render, and only if that render attached
\* expandRowRef to the row of the deep-link target.  No re-render after a
\* toggle, a change of the expand-all flag or a new target key scrolls.
C18_ScrollsAtMostOnceAfterFirstRender ==
    /\ scrolls <= 1
    /\ scrolls = 1 <=> (effectDep # "none" /\ hist.mountRef)
    /\ hist.mountRef => hist.mountKey # <<>>

\* The target row scrolled to after the mount, hidden by a toggle and shown
\* again by the next: the count of scrolls is still one.
C18_Witness ==
    /\ phase = "idle" /\ scrolls = 1
    /\ hist.event = "toggle" /\ hist.run = 2 /\ ~hist.wasExpanded
    /\ TargetRowShown
    /\ \E i \in 1..Len(body) : body[i].ref /\ body[i].nestedLevel > 0

\* The positions of the body that hold a bracket of the given type.
Brackets(rowType) == {i \in 1..Len(body) : body[i].rowType = rowType}

\* The closers after the opener at i for the same key, and the openers before
\* the closer at j for the same key.
ClosersFor(i) == {j \in Brackets("closer") : j > i /\ body[j].key = body[i].key}

OpenersFor(j) == {i \in Brackets("opener") : i < j /\ body[i].key = body[j].key}

\* C19: in every body rendered, each opener has exactly one closer after it
\* for the same key, with the same number of array brackets, the same map
\* marker and the same level; each closer has exactly one opener before it;
\* the pairs are properly nested; and the entries between an opener and its
\* closer are exactly the entries the body shows for the descendants of the
\* row the brackets name, all of them at a deeper level.
C19_OpenersAndClosersBalanced ==
    Rendered =>
        /\ \A i \in Brackets("opener") :
              /\ Cardinality(ClosersFor(i)) = 1
              /\ \A j \in ClosersFor(i) :
                    /\ body[j].brackets = body[i].brackets
                    /\ body[j].map = body[i].map
                    /\ body[j].nestedLevel = body[i].nestedLevel
                    /\ body[i].brackets > 0 \/ body[i].map
                    /\ \A k \in 1..Len(body) :
                          (i < k /\ k < j)
                            <=> body[k].key \in SubtreeKeys(RowByKey(body[i].key))
                    /\ \A k \in (i + 1)..(j - 1) :
                          /\ body[k].nestedLevel > body[i].nestedLevel
                          /\ body[k].rowType = "opener" =>
                                \A l \in ClosersFor(k) : l < j
                          /\ body[k].rowType = "closer" =>
                                \A l \in OpenersFor(k) : l > i
        /\ \A j \in Brackets("closer") : Cardinality(OpenersFor(j)) = 1

\* A map whose value is a map, both expanded: a pair of brackets within a
\* pair of brackets, with rows before, between and after the inner pair.
C19_Witness ==
    /\ phase = "idle"
    /\ \E i, k \in Brackets("opener") : \E l, j \in Brackets("closer") :
          /\ i < k /\ k + 1 < l /\ l < j
          /\ body[j].key = body[i].key /\ body[l].key = body[k].key
          /\ body[i].map /\ body[k].map
          /\ body[i + 1].rowType = "row"

\* The step is a click on the expanding button of the row with key hist'.key.
ToggleStep == phase = "idle" /\ phase' = "dirty" /\ hist'.event = "toggle"

\* C20: a toggle of key k changes the membership of k alone: every other key
\* is expanded after the step iff it was before, and the toggle leaves the
\* data, the columns and the options as they were.
C20_ToggleChangesOnlyItsKey ==
    [][ToggleStep =>
          /\ \A j \in Range(expandedRows) \cup Range(expandedRows') :
                j # hist'.key => (Includes(expandedRows', j) <=> Includes(expandedRows, j))
          /\ Includes(expandedRows', hist'.key) <=> ~Includes(expandedRows, hist'.key)
          /\ data' = data /\ columns' = columns /\ options' = options]_vars

\* A key expanded by a toggle while two other keys or more stayed expanded
\* and one other expandable row stayed collapsed.
C20_Witness ==
    /\ hist.event = "toggle" /\ phase = "idle" /\ ~hist.wasExpanded
    /\ Cardinality(Range(hist.last)) >= 2
    /\ Range(expandedRows) = Range(hist.last) \cup {hist.key}
    /\ hist.key \notin Range(hist.last)
    /\ \E i \in 1..Len(body) :
          /\ body[i].rowType = "row" /\ body[i].isExpandable
          /\ body[i].key \notin Range(expandedRows)

====
